---- MODULE Spec2Model ----
(***************************************************************************)
(* corkboard: the schema-migration engine of the datastore                 *)
(* (Datastore.RunMigrations) run against a sqlite store and a collection   *)
(* of migration scripts.                                                   *)
(*                                                                         *)
(* File names are modelled as text (sequences of characters), so that the  *)
(* name pattern, the split on ".", the integer parse of the serial and the *)
(* lexical order of fs.WalkDir are computed as the code computes them.     *)
(* A path is the sequence of its components.                               *)
(*                                                                         *)
(* The three start-up statements of RunMigrations (pragma, create table if *)
(* not exists, select) are taken to succeed; the failures modelled are the *)
(* ones inside the walk: reading a file, beginning a transaction, running  *)
(* the script, inserting the ledger entry and committing.                  *)
(*                                                                         *)
(* The note store (getNote, setNote, deleteNote, getLatestNotes,           *)
(* deleteOldNotes) is modelled by its SQL statements on table "note"; the  *)
(* one statement failure modelled is the UNIQUE violation of setNote's     *)
(* insert.  main() is modelled with its -note-expiry and -migrate flags    *)
(* and its expiry goroutine; time.Duration keeps its 64 bits.              *)
(***************************************************************************)
EXTENDS Integers, Sequences, FiniteSets, TLC

(***************************************************************************)
(* Bounds                                                                  *)
(***************************************************************************)
\* most files in the script collection
MaxFiles == 3
\* most RunMigrations calls in one behaviour
MaxRuns == 2
\* most injected store / file-system faults in one behaviour
MaxFaults == 1

(***************************************************************************)
(* Text                                                                    *)
(***************************************************************************)
Digits == {"0", "1", "2", "3", "4", "5", "6", "7", "8", "9"}

\* byte value of a character (Go compares strings bytewise)
CharCode ==
  ("-" :> 45) @@ ("." :> 46) @@ ("0" :> 48) @@ ("1" :> 49) @@ ("2" :> 50) @@
  ("3" :> 51) @@ ("4" :> 52) @@ ("5" :> 53) @@ ("6" :> 54) @@ ("7" :> 55) @@
  ("8" :> 56) @@ ("9" :> 57) @@ ("a" :> 97) @@ ("l" :> 108) @@ ("q" :> 113) @@
  ("s" :> 115)

DigitValue ==
  ("0" :> 0) @@ ("1" :> 1) @@ ("2" :> 2) @@ ("3" :> 3) @@ ("4" :> 4) @@
  ("5" :> 5) @@ ("6" :> 6) @@ ("7" :> 7) @@ ("8" :> 8) @@ ("9" :> 9)

\* Go's s < t on strings: bytewise lexicographic, a proper prefix is smaller
RECURSIVE StrLess(_, _)
StrLess(s, t) ==
  IF t = <<>> THEN FALSE
  ELSE IF s = <<>> THEN TRUE
  ELSE IF CharCode[Head(s)] # CharCode[Head(t)]
       THEN CharCode[Head(s)] < CharCode[Head(t)]
       ELSE StrLess(Tail(s), Tail(t))

\* strings.Split(s, "."): the pieces of s between the dots
RECURSIVE SplitDot(_)
SplitDot(s) ==
  IF \A i \in 1..Len(s) : s[i] # "."
  THEN <<s>>
  ELSE LET k == CHOOSE i \in 1..Len(s) :
                  s[i] = "." /\ \A j \in 1..(i - 1) : s[j] # "."
       IN  <<SubSeq(s, 1, k - 1)>> \o SplitDot(SubSeq(s, k + 1, Len(s)))

AllDigits(s, from, to) == \A i \in from..to : s[i] \in Digits

\* regexp.MatchString(`^\d{4}-\d{2}-\d{2}\.\d+\.sql$`, filename)
MatchName(s) ==
  /\ Len(s) >= 16
  /\ AllDigits(s, 1, 4)
  /\ s[5] = "-"
  /\ AllDigits(s, 6, 7)
  /\ s[8] = "-"
  /\ AllDigits(s, 9, 10)
  /\ s[11] = "."
  /\ AllDigits(s, 12, Len(s) - 4)
  /\ SubSeq(s, Len(s) - 3, Len(s)) = <<".", "s", "q", "l">>

MaxInt32 == 2147483647

RECURSIVE DecimalValue(_)
DecimalValue(s) ==
  IF s = <<>> THEN 0
  ELSE 10 * DecimalValue(SubSeq(s, 1, Len(s) - 1)) + DigitValue[s[Len(s)]]

\* strconv.ParseInt(s, 10, 32) on a string of digits: the digits are
\* accumulated, and a value beyond 2^31 - 1 is a range error that returns
\* the greatest value
RECURSIVE ParseInt(_)
ParseInt(s) ==
  IF s = <<>> THEN [value |-> 0, ok |-> TRUE]
  ELSE LET n == ParseInt(SubSeq(s, 1, Len(s) - 1))
           d == DigitValue[s[Len(s)]]
       IN  IF ~n.ok \/ n.value > (MaxInt32 - d) \div 10
           THEN [value |-> MaxInt32, ok |-> FALSE]
           ELSE [value |-> 10 * n.value + d, ok |-> TRUE]

\* path.Base
Base(p) == p[Len(p)]

(***************************************************************************)
(* Migration identifiers                                                   *)
(***************************************************************************)
\* the zero value migration{}
NoMigration == [date |-> <<>>, number |-> 0]

\* variant: "no later than" in place of "earlier than"
before_le(m1, m2) ==
  StrLess(m1.date, m2.date) \/ (m1.date = m2.date /\ m1.number <= m2.number)

\* migration.before
before(m1, m2) ==
  StrLess(m1.date, m2.date) \/ (m1.date = m2.date /\ m1.number < m2.number)

\* the identifier a file name is parsed to (lines 103-113), for names that
\* match the pattern
Ident(p) ==
  LET nameComponents == SplitDot(Base(p))
  IN  [date |-> nameComponents[1], number |-> ParseInt(nameComponents[2]).value]

WellFormed(p) ==
  /\ MatchName(Base(p))
  /\ Len(SplitDot(Base(p))) = 3
  /\ ParseInt(SplitDot(Base(p))[2]).ok

(***************************************************************************)
(* The script collection (fs.FS)                                           *)
(***************************************************************************)
DateA == <<"2", "0", "2", "0", "-", "0", "1", "-", "0", "1">>
DateB == <<"2", "0", "2", "0", "-", "0", "2", "-", "0", "1">>

\* a date whose day is not padded to two digits
DateUnpadded == <<"2", "0", "2", "0", "-", "0", "1", "-", "1">>

FileName(date, serial) == date \o <<".">> \o serial \o <<".", "s", "q", "l">>

\* the paths a collection is drawn from
Paths ==
  { <<FileName(DateA, <<"2">>)>>,
    <<FileName(DateA, <<"0", "2">>)>>,
    <<FileName(DateA, <<"1", "0">>)>>,
    <<FileName(DateB, <<"0">>)>>,
    <<FileName(DateUnpadded, <<"0">>)>>,
    <<<<"a">>, FileName(DateA, <<"2">>)>> }

Collections == {c \in SUBSET Paths : Cardinality(c) <= MaxFiles}

\* order of the directory entries read by fs.WalkDir: by name, a directory
\* being walked at the place of its name
RECURSIVE PathLess(_, _)
PathLess(p, q) ==
  IF q = <<>> THEN FALSE
  ELSE IF p = <<>> THEN TRUE
  ELSE IF Head(p) # Head(q) THEN StrLess(Head(p), Head(q))
  ELSE PathLess(Tail(p), Tail(q))

\* the files of a collection in the order fs.WalkDir calls the callback
RECURSIVE WalkOrder(_)
WalkOrder(c) ==
  IF c = {} THEN <<>>
  ELSE LET first == CHOOSE p \in c : \A q \in c \ {p} : PathLess(p, q)
       IN  <<first>> \o WalkOrder(c \ {first})

(***************************************************************************)
(* The store                                                               *)
(***************************************************************************)
\* A script is two statements; a bad script fails at its second statement,
\* after its first has taken effect inside the transaction.
Parts == {1, 2}

AllParts(p) == {<<p, k>> : k \in Parts}

\* database/sql transaction: what it has written and not yet committed
NewTx == [ledger |-> {}, effects |-> {}]

\* tx.Exec(string(file))
TxExecScript(tx, p, isBad) ==
  IF isBad
  THEN [tx |-> [tx EXCEPT !.effects = @ \cup {<<p, 1>>}], ok |-> FALSE]
  ELSE [tx |-> [tx EXCEPT !.effects = @ \cup AllParts(p)], ok |-> TRUE]

\* tx.Exec(`insert into _migration values (?, ?)`, date, number)
TxInsert(tx, m) == [tx EXCEPT !.ledger = @ \cup {m}]

\* variant: the commit overwrites the ledger with the transaction's rows
TxCommit_replace(db, tx) ==
  [ledger |-> tx.ledger, effects |-> db.effects \cup tx.effects]

\* tx.Commit()
TxCommit(db, tx) ==
  [ledger |-> db.ledger \cup tx.ledger, effects |-> db.effects \cup tx.effects]

\* variant: the statements of a failed transaction stay in the store
TxRollback_leak(db, tx) == TxCommit(db, tx)

\* stop(): cancelling the context of an open transaction rolls it back
TxRollback(db, tx) == db

(***************************************************************************)
(* State                                                                   *)
(***************************************************************************)
VARIABLES
  files,               \* the script collection handed to RunMigrations
  bad,                 \* the files whose script fails when executed
  db,                  \* committed store: _migration rows, scripts' effects
  pc,                  \* "idle", "walk" (inside fs.WalkDir), "done"
  todo,                \* files fs.WalkDir has still to visit, in its order
  migrationSet,        \* RunMigrations' map[migration]bool
  latestMigration,     \* RunMigrations' latestMigration
  migrationsPerformed, \* RunMigrations' migrationsPerformed
  err,                 \* the error fs.WalkDir returned
  result,              \* the error RunMigrations returned
  run,                 \* history of the current run
  prev,                \* history of the run before it
  runs,                \* RunMigrations calls so far
  faults               \* faults injected so far

VARIABLES
  note,                \* committed store: the rows of table "note", by name
  now,                 \* the store's clock, datetime("now"), in seconds
  ret,                 \* the last note-store call and what it returned
  lastSet              \* per name, the body of the last setNote that
                       \* returned CREATED or UPDATED since the last delete

VARIABLES
  calls,               \* concurrent callers: each one's call and position
  note0                \* the rows of table "note" before the first call

VARIABLES
  main,                \* main(): "start", "migrating", "serving", "exited"
  config,              \* the Config parseArgs returned
  sweeper,             \* the expiry goroutine: "none" or "sleeping"
  wake,                \* the time at which its time.Sleep returns
  sweeps               \* deleteOldNotes calls the goroutine has made

VARIABLES
  credentials,         \* config.credentials: nil, or the set of valid strings
  numRecentNotes,      \* config.numRecentNotes
  req,                 \* the last HTTP request the router dispatched
  resp                 \* the response written to it

mvars == <<files, bad, db, pc, todo, migrationSet, latestMigration,
           migrationsPerformed, err, result, run, prev, runs, faults>>

nvars == <<note, now, ret, lastSet>>

cvars == <<calls, note0>>

svars == <<main, config, sweeper, wake, sweeps>>

hvars == <<credentials, numRecentNotes, req, resp>>

vars == <<mvars, nvars, cvars, svars, hvars>>

\* An error is modelled by the kind of its message: "format", "toolarge",
\* "duplicate", "order_old", "order_new", "read", "begin", "exec", "insert",
\* "commit" and "missing"; NilError is Go's nil.
NilError == "nil"

\* failures of the file system and the store met while applying a script
IOFaults == {"read", "begin", "insert", "commit"}

NoPath == <<>>

NoRun ==
  [files |-> {}, bad |-> {}, ledger0 |-> {}, effects0 |-> {},
   executed |-> <<>>, applied |-> <<>>, ioFault |-> FALSE,
   stopped |-> NoPath, result |-> NilError]

(***************************************************************************)
(* The note store's data: table "note" of schema.sql, the statuses of      *)
(* setNote                                                                 *)
(***************************************************************************)
NO_CLOBBER == 0
CREATED == 1
UPDATED == 2

Names == {"a", "b"}
Bodies == {"x", "y"}

\* no body: getNote's nil, and "no setNote since the last delete"
NoBody == "nil"

\* a row as `insert into "note" (name, body)` makes it at time t: both
\* timestamps default to current_timestamp
Row(body, t) == [body |-> body, create_time |-> t, last_viewed |-> t]

EmptyTable == [n \in {} |-> Row(NoBody, 0)]

(***************************************************************************)
(* time.Duration: an int64 count of nanoseconds, held as its eight bytes   *)
(* in two's complement, least significant first; arithmetic wraps          *)
(***************************************************************************)
\* the k low bytes of natural n
Bytes(n, k) ==
  LET rest[i \in 1..k] == IF i = 1 THEN n ELSE rest[i - 1] \div 256
  IN  [i \in 1..k |-> rest[i] % 256]

\* d * k + carry for natural k, within the bytes of d: the carry out of
\* the last byte is lost
MulCarry(d, k, carry) ==
  LET c[i \in 1..Len(d)] ==
        IF i = 1 THEN carry ELSE (d[i - 1] * k + c[i - 1]) \div 256
  IN  [i \in 1..Len(d) |-> (d[i] * k + c[i]) % 256]

\* d + carry, within the bytes of d
AddCarry(d, carry) ==
  LET c[i \in 1..Len(d)] ==
        IF i = 1 THEN carry ELSE (d[i - 1] + c[i - 1]) \div 256
  IN  [i \in 1..Len(d) |-> (d[i] + c[i]) % 256]

\* d / k for natural k, from the most significant byte down; rem[i] is
\* the remainder left by the bytes above byte i
DivRem(d, k, rem0) ==
  LET n == Len(d)
      rem[i \in 1..n] ==
        IF i = n THEN rem0 ELSE (rem[i + 1] * 256 + d[i + 1]) % k
  IN  [i \in 1..n |-> (rem[i] * 256 + d[i]) \div k]

Int64(n) == Bytes(n, 8)

IsNegative(d) == d[Len(d)] >= 128

Negate(d) == AddCarry([i \in 1..Len(d) |-> 255 - d[i]], 1)

Magnitude(d) == IF IsNegative(d) THEN Negate(d) ELSE d

\* time.Second, time.Hour
Second == 1000000000
Hour(width) == MulCarry(Bytes(Second, width), 3600, 0)

\* parseArgs, line 108: time.Duration(*noteExpiryTime*24) * time.Hour
DaysToDuration(days) == MulCarry(Hour(8), days * 24, 0)

\* a natural held in bytes as an integer, MaxInt32 when it is larger
Saturated(d) ==
  IF d[4] >= 128 \/ \E i \in 5..Len(d) : d[i] # 0
  THEN MaxInt32
  ELSE d[1] + 256 * d[2] + 65536 * d[3] + 16777216 * d[4]

\* deleteOldNotes, line 250: age/time.Second, Go's division truncating
\* towards zero.  The quotient is compared with now - last_viewed, which
\* stays far below MaxInt32, so a quotient beyond MaxInt32 is held as
\* MaxInt32.
Seconds(d) ==
  LET q == DivRem(DivRem(DivRem(Magnitude(d), 1000, 0), 1000, 0), 1000, 0)
  IN  IF IsNegative(d) THEN 0 - Saturated(q) ELSE Saturated(q)

\* the Config before parseArgs has filled it
NoConfig == [expiry |-> 0, migrate |-> FALSE, noteExpiryTime |-> Int64(0)]

\* a Go map[string]bool: nil, or made and holding the given keys
NilMap == [nil |-> TRUE, keys |-> {}]
MakeMap(keys) == [nil |-> FALSE, keys |-> keys]

\* no Authorization header, or one that is not well-formed Basic
NoHeader == [present |-> FALSE, text |-> <<>>]

NoRequest == [route |-> "", name |-> "", body |-> NoBody, auth |-> NoHeader]

NoResponse == [code |-> 0, invoked |-> FALSE]

\* no call has returned
NoRet ==
  [op |-> "none", name |-> "", body |-> NoBody, clobber |-> FALSE,
   status |-> NO_CLOBBER, found |-> FALSE, names |-> <<>>, n |-> 0,
   err |-> NilError]

\* A fresh store and any collection; at most one script of the collection
\* fails when executed (the walk stops at the first failing script, so a
\* second one would never be run).
InitMigration ==
  /\ db = [ledger |-> {}, effects |-> {}]
  /\ pc = "idle"
  /\ todo = <<>>
  /\ migrationSet = <<>>
  /\ latestMigration = NoMigration
  /\ migrationsPerformed = 0
  /\ err = NilError
  /\ result = NilError
  /\ run = NoRun
  /\ prev = NoRun
  /\ runs = 0
  /\ faults = 0

\* no note yet, no call yet
InitNoteStore ==
  /\ note = EmptyTable
  /\ now = 0
  /\ ret = NoRet
  /\ lastSet = [n \in Names |-> NoBody]

InitCalls ==
  /\ calls = <<>>
  /\ note0 = EmptyTable

\* main() has not started
InitMain ==
  /\ main = "start"
  /\ config = NoConfig
  /\ sweeper = "none"
  /\ wake = 0
  /\ sweeps = 0

\* no credentials configured, no request yet
InitHttp ==
  /\ credentials = NilMap
  /\ numRecentNotes = 0
  /\ req = NoRequest
  /\ resp = NoResponse

Init ==
  /\ files \in Collections
  /\ bad \in {{}} \cup {{p} : p \in files}
  /\ InitMigration
  /\ InitNoteStore
  /\ InitCalls
  /\ InitMain
  /\ InitHttp

(***************************************************************************)
(* RunMigrations, lines 35-81: load the ledger                             *)
(***************************************************************************)
\* variant: the comparison of the loop inverted, keeping the earliest row
RECURSIVE ScanRows_inverted(_, _, _)
ScanRows_inverted(rows, justBegun, latest) ==
  IF rows = {} THEN latest
  ELSE LET row == CHOOSE r \in rows : TRUE
       IN  IF justBegun
           THEN ScanRows_inverted(rows \ {row}, FALSE, row)
           ELSE IF before(row, latest)
                THEN ScanRows_inverted(rows \ {row}, FALSE, row)
                ELSE ScanRows_inverted(rows \ {row}, FALSE, latest)

\* the loop over the rows of `select * from _migration` (lines 59-77); the
\* rows come in no particular order
RECURSIVE ScanRows(_, _, _)
ScanRows(rows, justBegun, latest) ==
  IF rows = {} THEN latest
  ELSE LET row == CHOOSE r \in rows : TRUE
       IN  IF justBegun
           THEN ScanRows(rows \ {row}, FALSE, row)
           ELSE IF before(latest, row)
                THEN ScanRows(rows \ {row}, FALSE, row)
                ELSE ScanRows(rows \ {row}, FALSE, latest)

Begin ==
  /\ pc \in {"idle", "done"}
  /\ runs < MaxRuns
  /\ migrationSet' = [m \in db.ledger |-> FALSE]
  /\ latestMigration' = ScanRows(db.ledger, TRUE, NoMigration)
  /\ migrationsPerformed' = 0
  /\ todo' = WalkOrder(files)
  /\ err' = NilError
  /\ pc' = "walk"
  /\ runs' = runs + 1
  /\ prev' = run
  /\ run' = [NoRun EXCEPT !.files = files, !.bad = bad,
                          !.ledger0 = db.ledger, !.effects0 = db.effects]
  /\ UNCHANGED <<files, bad, db, result, faults>>
  /\ UNCHANGED <<nvars, cvars, svars, hvars>>

(***************************************************************************)
(* RunMigrations, lines 86-169: the fs.WalkDir callback on one file        *)
(***************************************************************************)
\* variant: the new migration does not become the latest
Outcome_stale(set, latest, performed, store, e, executed, committed, faulted) ==
  [migrationSet |-> set, latestMigration |-> latestMigration,
   performed |-> performed, db |-> store, err |-> e, executed |-> executed,
   committed |-> committed, faulted |-> faulted]

Outcome(set, latest, performed, store, e, executed, committed, faulted) ==
  [migrationSet |-> set, latestMigration |-> latest, performed |-> performed,
   db |-> store, err |-> e, executed |-> executed, committed |-> committed,
   faulted |-> faulted]

\* lines 140-168: read the file, run it and record it in one transaction
DoMigration(set, latest, p, m, fault) ==
  IF fault = "read"
  THEN Outcome(set, latest, migrationsPerformed, db, "read",
               FALSE, FALSE, TRUE)
  ELSE IF fault = "begin"
  THEN Outcome(set, latest, migrationsPerformed, db, "begin",
               FALSE, FALSE, TRUE)
  ELSE
    LET ex == TxExecScript(NewTx, p, p \in bad) IN
    IF ~ex.ok
    THEN Outcome(set, latest, migrationsPerformed, TxRollback(db, ex.tx),
                 "exec", TRUE, FALSE, FALSE)
    ELSE IF fault = "insert"
    THEN Outcome(set, latest, migrationsPerformed + 1, TxRollback(db, ex.tx),
                 "insert", TRUE, FALSE, TRUE)
    ELSE
      LET tx == TxInsert(ex.tx, m) IN
      IF fault = "commit"
      THEN Outcome(set, latest, migrationsPerformed + 1, TxRollback(db, tx),
                   "commit", TRUE, FALSE, TRUE)
      ELSE Outcome(set, latest, migrationsPerformed + 1, TxCommit(db, tx),
                   NilError, TRUE, TRUE, FALSE)

Rejected(e) ==
  Outcome(migrationSet, latestMigration, migrationsPerformed, db, e,
          FALSE, FALSE, FALSE)

Callback(p, fault) ==
  LET filename == Base(p) IN
  IF ~MatchName(filename)
  THEN Rejected("format")
  ELSE
    LET nameComponents == SplitDot(filename) IN
    IF Len(nameComponents) # 3
    THEN Rejected("format")
    ELSE
      LET date == nameComponents[1]
          number64 == ParseInt(nameComponents[2])
      IN
      IF ~number64.ok
      THEN Rejected("toolarge")
      ELSE
        LET newMigration == [date |-> date, number |-> number64.value] IN
        IF newMigration \in DOMAIN migrationSet
        THEN IF migrationSet[newMigration]
             THEN Rejected("duplicate")
             ELSE IF before(latestMigration, newMigration)
             THEN Rejected("order_old")
             ELSE Outcome([migrationSet EXCEPT ![newMigration] = TRUE],
                          latestMigration, migrationsPerformed, db, NilError,
                          FALSE, FALSE, FALSE)
        ELSE IF ~before(latestMigration, newMigration)
             THEN Rejected("order_new")
             ELSE DoMigration((newMigration :> TRUE) @@ migrationSet,
                              newMigration, p, newMigration, fault)

\* variant: the enumeration goes on after the callback returned an error
Walk_on ==
  /\ pc = "walk"
  /\ todo # <<>>
  /\ \E fault \in {"none"} \cup (IF faults < MaxFaults THEN IOFaults ELSE {}) :
       LET p == Head(todo)
           o == Callback(p, fault)
       IN  /\ migrationSet' = o.migrationSet
           /\ latestMigration' = o.latestMigration
           /\ migrationsPerformed' = o.performed
           /\ db' = o.db
           /\ err' = o.err
           /\ faults' = IF o.faulted THEN faults + 1 ELSE faults
           /\ run' = [run EXCEPT
                 !.executed = IF o.executed THEN Append(@, p) ELSE @,
                 !.applied = IF o.committed THEN Append(@, p) ELSE @,
                 !.ioFault = @ \/ o.faulted,
                 !.stopped = IF o.err # NilError THEN p ELSE @]
  /\ todo' = Tail(todo)
  /\ UNCHANGED <<files, bad, pc, result, prev, runs>>
  /\ UNCHANGED <<nvars, cvars, svars, hvars>>

Walk ==
  /\ pc = "walk"
  /\ err = NilError
  /\ todo # <<>>
  /\ \E fault \in {"none"} \cup (IF faults < MaxFaults THEN IOFaults ELSE {}) :
       LET p == Head(todo)
           o == Callback(p, fault)
       IN  /\ migrationSet' = o.migrationSet
           /\ latestMigration' = o.latestMigration
           /\ migrationsPerformed' = o.performed
           /\ db' = o.db
           /\ err' = o.err
           /\ faults' = IF o.faulted THEN faults + 1 ELSE faults
           /\ run' = [run EXCEPT
                 !.executed = IF o.executed THEN Append(@, p) ELSE @,
                 !.applied = IF o.committed THEN Append(@, p) ELSE @,
                 !.ioFault = @ \/ o.faulted,
                 !.stopped = IF o.err # NilError THEN p ELSE @]
  /\ todo' = Tail(todo)
  /\ UNCHANGED <<files, bad, pc, result, prev, runs>>
  /\ UNCHANGED <<nvars, cvars, svars, hvars>>

(***************************************************************************)
(* RunMigrations, lines 171-179: the missing-migration check, the return   *)
(***************************************************************************)
Unvisited(set) == {m \in DOMAIN set : ~set[m]}

\* variant: the walk's error dropped at the end
Returned_dropErr(set, walkErr) ==
  IF Unvisited(set) # {}
  THEN "missing"
  ELSE NilError

\* variant: the walk's error returned before the missing-migration check
Returned_errFirst(set, walkErr) ==
  IF walkErr # NilError
  THEN walkErr
  ELSE IF Unvisited(set) # {}
  THEN "missing"
  ELSE NilError

\* variant: no missing-migration check
Returned_unchecked(set, walkErr) == walkErr

\* the error the function returns, given the map and the walk's error
Returned(set, walkErr) ==
  IF Unvisited(set) # {}
  THEN "missing"
  ELSE walkErr

\* variant: the check of the working set does not wait for the walk
Return_early ==
  /\ pc = "walk"
  /\ result' = Returned(migrationSet, err)
  /\ run' = [run EXCEPT !.result = Returned(migrationSet, err)]
  /\ pc' = "done"
  /\ UNCHANGED <<files, bad, db, todo, migrationSet, latestMigration,
                 migrationsPerformed, err, prev, runs, faults>>
  /\ UNCHANGED <<nvars, cvars, svars, hvars>>

Return ==
  /\ pc = "walk"
  /\ err # NilError \/ todo = <<>>
  /\ result' = Returned(migrationSet, err)
  /\ run' = [run EXCEPT !.result = Returned(migrationSet, err)]
  /\ pc' = "done"
  /\ UNCHANGED <<files, bad, db, todo, migrationSet, latestMigration,
                 migrationsPerformed, err, prev, runs, faults>>
  /\ UNCHANGED <<nvars, cvars, svars, hvars>>

(***************************************************************************)
(* Between two runs the operator changes the collection: a script is       *)
(* added, a file is removed, or the failing script is repaired             *)
(***************************************************************************)
CanEdit ==
  /\ pc = "done"
  /\ runs < MaxRuns

Edited ==
  /\ pc' = "idle"
  /\ prev' = NoRun
  /\ UNCHANGED <<db, todo, migrationSet, latestMigration, migrationsPerformed,
                 err, result, run, runs, faults>>
  /\ UNCHANGED <<nvars, cvars, svars, hvars>>

\* a script is added; it executes without error
AddFile ==
  /\ CanEdit
  /\ Cardinality(files) < MaxFiles
  /\ \E p \in Paths \ files : files' = files \cup {p}
  /\ bad' = bad
  /\ Edited

\* a file is removed
RemoveFile ==
  /\ CanEdit
  /\ \E p \in files :
       /\ files' = files \ {p}
       /\ bad' = bad \ {p}
  /\ Edited

\* the failing script is repaired
FixScript ==
  /\ CanEdit
  /\ \E p \in bad : bad' = bad \ {p}
  /\ files' = files
  /\ Edited

Next == Begin \/ Walk \/ Return \/ AddFile \/ RemoveFile \/ FixScript

Spec == Init /\ [][Next]_vars

TypeOK ==
  /\ files \in Collections
  /\ bad \subseteq files
  /\ pc \in {"idle", "walk", "done"}
  /\ runs \in 0..MaxRuns
  /\ faults \in 0..MaxFaults

(***************************************************************************)
(* Vocabulary of the properties                                            *)
(***************************************************************************)
Idents(c) == {Ident(p) : p \in {q \in c : WellFormed(q)}}

\* the greatest identifier of a non-empty set
Greatest(S) == CHOOSE m \in S : \A k \in S \ {m} : before(k, m)

\* the scripts of a run's collection that its ledger does not record
Pending(r) == {p \in r.files : WellFormed(p) /\ Ident(p) \notin r.ledger0}

\* well-formed names, pairwise distinct identifiers
DistinctIdents(c) ==
  /\ \A p \in c : WellFormed(p)
  /\ \A p, q \in c : Ident(p) = Ident(q) => p = q

\* the scripts whose effects are in the store, whole or in part
Effected == {e[1] : e \in db.effects}

\* the run is over and met no file-system or store fault
Finished == pc = "done" /\ ~run.ioFault

(***************************************************************************)
(* C1  Transactional pairing.  In every committed state the ledger holds   *)
(* exactly the identifiers of the scripts whose effects are in the store,  *)
(* every such script's effects are there in full, and a script on which    *)
(* the run failed (execution, ledger insert or commit) has left neither    *)
(* effects nor entry.                                                      *)
(***************************************************************************)
TransactionalPairing ==
  /\ db.ledger = {Ident(p) : p \in Effected}
  /\ \A p \in Effected : AllParts(p) \subseteq db.effects
  /\ \A p \in Paths :
       (run.stopped = p /\ err \in {"exec", "insert", "commit"})
         => (p \notin Effected /\ Ident(p) \notin db.ledger)

\* a run that committed one script and failed on the next
TransactionalPairing_witness ==
  /\ pc = "done"
  /\ Len(run.applied) >= 1
  /\ err \in {"exec", "insert", "commit"}

(***************************************************************************)
(* C2  For every valid collection (well-formed names, distinct             *)
(* identifiers, scripts that execute without error) run against an empty   *)
(* store, the run returns success, the ledger holds one entry per script   *)
(* and nothing else, and its greatest entry is the collection's greatest   *)
(* identifier.                                                             *)
(***************************************************************************)
FreshStoreApplyAll ==
  (/\ Finished
   /\ run.ledger0 = {}
   /\ DistinctIdents(run.files)
   /\ run.bad = {})
  => /\ result = NilError
     /\ db.ledger = Idents(run.files)
     /\ Cardinality(db.ledger) = Cardinality(run.files)
     /\ run.files # {} => Greatest(db.ledger) = Greatest(Idents(run.files))

(***************************************************************************)
(* C3  Idempotence.  As claimed: when RunMigrations is run twice in a row  *)
(* on the same store with the same collection, the second run executes no  *)
(* script, leaves the store unchanged and returns success.                 *)
(***************************************************************************)
SameCollectionAgain ==
  /\ pc = "done"
  /\ runs >= 2
  /\ run.files = prev.files
  /\ run.bad = prev.bad

SecondRunDoesNothing ==
  /\ run.executed = <<>>
  /\ db.ledger = run.ledger0
  /\ db.effects = run.effects0
  /\ result = NilError

\* the claim as written, on collections of well-formed, distinct names and
\* runs without faults
Idempotence_original ==
  (/\ SameCollectionAgain
   /\ DistinctIdents(run.files)
   /\ ~prev.ioFault
   /\ ~run.ioFault)
  => SecondRunDoesNothing

\* C3 as amended: when the first of the two runs returned success, the
\* second executes no script, leaves the store unchanged and returns success.
Idempotence ==
  (SameCollectionAgain /\ prev.result = NilError) => SecondRunDoesNothing

Idempotence_witness ==
  /\ SameCollectionAgain
  /\ prev.result = NilError
  /\ Len(prev.applied) >= 2

(***************************************************************************)
(* C4  Partial-failure durability.  When a run has two pending scripts,    *)
(* the first executing successfully and the second failing, the run        *)
(* returns an error and the ledger afterwards holds the first script's     *)
(* entry and not the second's; a later run of the same collection with the *)
(* second script fixed applies only the second and returns success.  (The  *)
(* collection has no other defect: names are well-formed and distinct and  *)
(* every ledger entry has its script.)                                     *)
(***************************************************************************)
\* run r had pending scripts f1 then f2, committed f1 and failed running f2
FailedHalfway(r, f1, f2) ==
  /\ r.applied = <<f1>>
  /\ r.stopped = f2
  /\ r.executed = <<f1, f2>>
  /\ f2 \in r.bad
  /\ Pending(r) = {f1, f2}

NoOtherDefect(r) ==
  /\ DistinctIdents(r.files)
  /\ r.ledger0 \subseteq Idents(r.files)

PartialFailureDurability ==
  \A f1, f2 \in Paths :
    /\ (pc = "done" /\ FailedHalfway(run, f1, f2))
         => /\ result # NilError
            /\ db.ledger = run.ledger0 \cup {Ident(f1)}
            /\ Ident(f2) \notin db.ledger
    /\ (/\ Finished
        /\ runs >= 2
        /\ FailedHalfway(prev, f1, f2)
        /\ NoOtherDefect(prev)
        /\ run.files = prev.files
        /\ run.bad = prev.bad \ {f2})
         => /\ run.applied = <<f2>>
            /\ run.executed = <<f2>>
            /\ result = NilError

PartialFailureDurability_witness ==
  \E f1, f2 \in Paths :
    /\ Finished
    /\ runs >= 2
    /\ FailedHalfway(prev, f1, f2)
    /\ NoOtherDefect(prev)
    /\ run.files = prev.files
    /\ run.bad = prev.bad \ {f2}
    /\ run.applied = <<f2>>

(***************************************************************************)
(* C5  Out-of-order detection.  Whenever the collection contains a script  *)
(* that has no ledger entry and whose identifier is less than or equal to  *)
(* the latest ledger entry, the script is neither applied nor recorded,    *)
(* and the run that reaches it fails with an out-of-order error, not with  *)
(* an error of another kind.                                               *)
(***************************************************************************)
\* p is unrecorded and no newer than the latest entry of the run's ledger
OutOfOrder(r, p) ==
  /\ WellFormed(p)
  /\ r.ledger0 # {}
  /\ Ident(p) \notin r.ledger0
  /\ ~before(Greatest(r.ledger0), Ident(p))

OutOfOrderDetection ==
  pc = "done" =>
    \A p \in run.files :
      OutOfOrder(run, p) =>
        /\ Ident(p) \notin db.ledger
        /\ p \notin Effected
        /\ run.stopped = p => result = "order_new"

(***************************************************************************)
(* C6  Error precedence.  When enumeration stopped with an error, that     *)
(* error is the one RunMigrations returns, even if ledger entries were     *)
(* left unmatched.                                                         *)
(***************************************************************************)
ErrorPrecedence ==
  (pc = "done" /\ err # NilError) => result = err

(***************************************************************************)
(* C7  Tamper detection.  Whenever the ledger holds an entry for which the *)
(* collection has no script of that identifier, RunMigrations fails with a *)
(* missing-migration error.                                                *)
(***************************************************************************)
Orphans(r) == r.ledger0 \ Idents(r.files)

TamperDetection ==
  (pc = "done" /\ Orphans(run) # {}) => result = "missing"

\* a script was applied, its file removed, and the run after that also met
\* an error during enumeration
TamperDetection_witness ==
  /\ pc = "done"
  /\ Orphans(run) # {}
  /\ run.files # {}
  /\ err # NilError

(***************************************************************************)
(* C8  For every collection of well-formed names the order of enumeration  *)
(* (lexical by path) is the ascending order of the identifiers, so that a  *)
(* run on a fresh store never raises an out-of-order error.                *)
(***************************************************************************)
Ascending(w) ==
  \A i, j \in 1..Len(w) : i < j => ~before(Ident(w[j]), Ident(w[i]))

WalkOrderIsIdentOrder ==
  (pc # "idle" /\ \A p \in run.files : WellFormed(p))
  => /\ Ascending(WalkOrder(run.files))
     /\ run.ledger0 = {} => err \notin {"order_new", "order_old"}

(***************************************************************************)
(* C9  Within one run the scripts are committed in strictly ascending      *)
(* identifier order, and each committed script's identifier is strictly    *)
(* greater than every ledger entry present when it is applied.             *)
(***************************************************************************)
StrictlyAscending(w) ==
  \A i, j \in 1..Len(w) : i < j => before(Ident(w[i]), Ident(w[j]))

AscendingCommits ==
  /\ [](StrictlyAscending(run.applied))
  /\ [][\A m \in db.ledger' \ db.ledger :
          \A k \in db.ledger : before(k, m)]_vars

\* a run on a store that already had entries committed two scripts
AscendingCommits_witness ==
  /\ run.ledger0 # {}
  /\ Len(run.applied) >= 2

(***************************************************************************)
(* C10  Duplicate identifiers.  Whenever two files of the collection parse *)
(* to the same identifier, the run fails, the script of that identifier is *)
(* executed at most once, and the run that reaches the second of the two   *)
(* fails with a duplicate error, whether the identifier was in the ledger  *)
(* before or was first applied in this run.                                *)
(***************************************************************************)
Twins(c) ==
  {pq \in c \X c :
     /\ pq[1] # pq[2]
     /\ WellFormed(pq[1])
     /\ WellFormed(pq[2])
     /\ Ident(pq[1]) = Ident(pq[2])}

DuplicateDetection ==
  (Finished /\ \A p \in run.files : WellFormed(p)) =>
    \A pq \in Twins(run.files) :
      /\ result # NilError
      /\ ~(pq[1] \in Effected /\ pq[2] \in Effected)
      /\ run.stopped = pq[2] /\ err = "duplicate"
           => result = "duplicate"

(***************************************************************************)
(* C11  Malformed names.  Whenever a file's base name does not match the   *)
(* name pattern, its content is never executed, no ledger entry is         *)
(* recorded for it, and the run that reaches it fails with a discovery     *)
(* ("bad format") error.                                                   *)
(***************************************************************************)
Malformed(p) == ~MatchName(Base(p))

MalformedRejected ==
  pc = "done" =>
    \A p \in run.files :
      Malformed(p) =>
        /\ p \notin Effected
        /\ \A k \in 1..Len(run.executed) : run.executed[k] # p
        /\ db.ledger \subseteq run.ledger0 \cup Idents(run.files)
        /\ run.stopped = p => result = "format"

(***************************************************************************)
(* The note store, lines 186-252.  Each statement is an operator on the    *)
(* table; the store executes a statement atomically                        *)
(***************************************************************************)
MaxTime == 2
MaxAge == 1
MaxLimit == 2

\* variant: name is no key, the insert replaces the row
InsertNote_blind(tbl, name, body, t) ==
  [note |-> [n \in DOMAIN tbl \cup {name} |->
               IF n = name THEN Row(body, t) ELSE tbl[n]],
   unique |-> TRUE]

\* insert into "note" (name, body) values (?, ?): name is the primary key,
\* so the insert fails with "UNIQUE constraint failed" when the row exists
InsertNote(tbl, name, body, t) ==
  IF name \in DOMAIN tbl
  THEN [note |-> tbl, unique |-> FALSE]
  ELSE [note |-> [n \in DOMAIN tbl \cup {name} |->
                    IF n = name THEN Row(body, t) ELSE tbl[n]],
        unique |-> TRUE]

\* variant: the update misses the where clause, every body is overwritten
UpdateBody_all(tbl, name, body) ==
  [n \in DOMAIN tbl |-> [tbl[n] EXCEPT !.body = body]]

\* update "note" set body = ? where name = ?
UpdateBody(tbl, name, body) ==
  [n \in DOMAIN tbl |->
     IF n = name THEN [tbl[n] EXCEPT !.body = body] ELSE tbl[n]]

\* variant: the update misses the where clause, every note is viewed
UpdateViewed_all(tbl, name, t) ==
  [n \in DOMAIN tbl |-> [tbl[n] EXCEPT !.last_viewed = t]]

\* update "note" set last_viewed = datetime("now") where name = ?
UpdateViewed(tbl, name, t) ==
  [n \in DOMAIN tbl |->
     IF n = name THEN [tbl[n] EXCEPT !.last_viewed = t] ELSE tbl[n]]

\* variant: the delete misses the where clause
DeleteRow_all(tbl, name) == EmptyTable

\* delete from "note" where name = ?
DeleteRow(tbl, name) == [n \in DOMAIN tbl \ {name} |-> tbl[n]]

\* variant: the comparison is not strict
Expired_ge(tbl, age, t) ==
  {n \in DOMAIN tbl : t - tbl[n].last_viewed >= age}

\* where strftime("%s", "now") - strftime("%s", last_viewed) > ?
Expired(tbl, age, t) ==
  {n \in DOMAIN tbl : t - tbl[n].last_viewed > age}

\* getNote, lines 186-202: select the body, then touch last_viewed
getNote(tbl, name, t) ==
  IF name \notin DOMAIN tbl
  THEN [note |-> tbl, body |-> NoBody, found |-> FALSE]
  ELSE [note |-> UpdateViewed(tbl, name, t), body |-> tbl[name].body,
        found |-> TRUE]

\* variant: a refused insert still counts as a view
setNote_touch(tbl, name, body, clobber, t) ==
  LET i == InsertNote(tbl, name, body, t)
  IN  IF ~i.unique
      THEN IF clobber
           THEN [note |-> UpdateBody(tbl, name, body), status |-> UPDATED]
           ELSE [note |-> UpdateViewed(tbl, name, t), status |-> NO_CLOBBER]
      ELSE [note |-> i.note, status |-> CREATED]

\* variant: the overwrite replaces the row, its times start again
setNote_replace(tbl, name, body, clobber, t) ==
  LET i == InsertNote(tbl, name, body, t)
  IN  IF ~i.unique
      THEN IF clobber
           THEN [note |-> [tbl EXCEPT ![name] = Row(body, t)],
                 status |-> UPDATED]
           ELSE [note |-> tbl, status |-> NO_CLOBBER]
      ELSE [note |-> i.note, status |-> CREATED]

\* setNote, lines 204-218: insert, and on a UNIQUE failure either update
\* the body or refuse
setNote(tbl, name, body, clobber, t) ==
  LET i == InsertNote(tbl, name, body, t)
  IN  IF ~i.unique
      THEN IF clobber
           THEN [note |-> UpdateBody(tbl, name, body), status |-> UPDATED]
           ELSE [note |-> tbl, status |-> NO_CLOBBER]
      ELSE [note |-> i.note, status |-> CREATED]

\* deleteNote, lines 220-223
deleteNote(tbl, name) == DeleteRow(tbl, name)

\* deleteOldNotes, lines 246-252; age is age/time.Second
deleteOldNotes(tbl, age, t) ==
  [n \in DOMAIN tbl \ Expired(tbl, age, t) |-> tbl[n]]

\* the sequences that list every element of S once
RECURSIVE Orderings(_)
Orderings(S) ==
  IF S = {} THEN {<<>>}
  ELSE UNION {{<<x>> \o o : o \in Orderings(S \ {x})} : x \in S}

Min(a, b) == IF a < b THEN a ELSE b

\* getLatestNotes, lines 225-244: select (name) from "note" order by
\* create_time asc limit ?.  Rows of equal create_time come in any order.
getLatestNotes(tbl, maxNotes) ==
  { SubSeq(o, 1, Min(maxNotes, Len(o))) :
      o \in { q \in Orderings(DOMAIN tbl) :
                \A i \in 1..Len(q) : \A j \in i..Len(q) :
                  tbl[q[i]].create_time <= tbl[q[j]].create_time } }

(***************************************************************************)
(* The note store called by one caller at a time: each action is one call  *)
(***************************************************************************)
Call(op) == [NoRet EXCEPT !.op = op]

SetNote ==
  /\ \E name \in Names, body \in Bodies, clobber \in BOOLEAN :
       LET o == setNote(note, name, body, clobber, now)
       IN  /\ note' = o.note
           /\ ret' = [Call("setNote") EXCEPT !.name = name, !.body = body,
                        !.clobber = clobber, !.status = o.status]
           /\ lastSet' = IF o.status \in {CREATED, UPDATED}
                         THEN [lastSet EXCEPT ![name] = body]
                         ELSE lastSet
  /\ UNCHANGED <<now, mvars, cvars, svars, hvars>>

GetNote ==
  /\ \E name \in Names :
       LET o == getNote(note, name, now)
       IN  /\ note' = o.note
           /\ ret' = [Call("getNote") EXCEPT !.name = name, !.body = o.body,
                        !.found = o.found]
  /\ UNCHANGED <<now, lastSet, mvars, cvars, svars, hvars>>

DeleteNote ==
  /\ \E name \in Names :
       /\ note' = deleteNote(note, name)
       /\ ret' = [Call("deleteNote") EXCEPT !.name = name]
       /\ lastSet' = [lastSet EXCEPT ![name] = NoBody]
  /\ UNCHANGED <<now, mvars, cvars, svars, hvars>>

DeleteOldNotes ==
  /\ \E age \in 0..MaxAge :
       /\ note' = deleteOldNotes(note, age, now)
       /\ ret' = [Call("deleteOldNotes") EXCEPT !.n = age]
       /\ lastSet' = [n \in Names |->
                        IF n \in Expired(note, age, now) THEN NoBody
                        ELSE lastSet[n]]
  /\ UNCHANGED <<now, mvars, cvars, svars, hvars>>

GetLatestNotes ==
  /\ \E maxNotes \in 0..MaxLimit :
       \E names \in getLatestNotes(note, maxNotes) :
         ret' = [Call("getLatestNotes") EXCEPT !.n = maxNotes,
                   !.names = names]
  /\ UNCHANGED <<note, now, lastSet, mvars, cvars, svars, hvars>>

\* a second passes and no call is in progress
Tick ==
  /\ now < MaxTime
  /\ now' = now + 1
  /\ ret' = NoRet
  /\ UNCHANGED <<note, lastSet, mvars, cvars, svars, hvars>>

NextNotes ==
  SetNote \/ GetNote \/ DeleteNote \/ DeleteOldNotes \/ GetLatestNotes \/ Tick

InitNotes ==
  /\ Init
  /\ files = {}

SpecNotes == InitNotes /\ [][NextNotes]_vars

NotesTypeOK ==
  /\ DOMAIN note \subseteq Names
  /\ \A n \in DOMAIN note :
       /\ note[n].body \in Bodies
       /\ note[n].create_time <= note[n].last_viewed
       /\ note[n].last_viewed <= now
  /\ now \in 0..MaxTime
  /\ \A n \in Names : lastSet[n] \in Bodies \cup {NoBody}

(***************************************************************************)
(* One store used by both: `corkboard -migrate` brings the schema up to    *)
(* date (main.go, lines 67-74), the server's handlers call the note store  *)
(***************************************************************************)
InitAll ==
  /\ Init
  /\ files = { <<FileName(DateA, <<"2">>)>>, <<FileName(DateB, <<"0">>)>> }

NextAll ==
  \/ Begin \/ Walk \/ Return
  \/ SetNote \/ GetNote \/ DeleteNote \/ DeleteOldNotes \/ GetLatestNotes

SpecAll == InitAll /\ [][NextAll]_vars

(***************************************************************************)
(* C12  The ledger is append-only: no step of RunMigrations and no call of *)
(* the note store removes or changes a ledger entry; the ledger after a    *)
(* step is a superset of the ledger before it.                             *)
(***************************************************************************)
LedgerAppendOnly == [][db.ledger \subseteq db.ledger']_vars

\* a failed run and a note-store call on a store whose ledger has an entry
LedgerAppendOnly_witness ==
  /\ db.ledger # {}
  /\ pc = "done"
  /\ runs = MaxRuns
  /\ result # NilError
  /\ ret.op = "deleteNote"
  /\ note # EmptyTable

(***************************************************************************)
(* C13  Note round trip, one caller: setNote without clobber on an absent  *)
(* name returns CREATED and the note then reads back as that body; setNote *)
(* with clobber on an existing name returns UPDATED and the note then      *)
(* reads back as the new body; getNote returns the body of the last        *)
(* setNote that returned CREATED or UPDATED since the last delete, and     *)
(* not-found when there is none.                                           *)
(***************************************************************************)
ReadsBack(tbl, name, body, t) ==
  /\ getNote(tbl, name, t).found
  /\ getNote(tbl, name, t).body = body

RoundTrip ==
  [][ /\ ret'.op = "setNote" /\ ~ret'.clobber /\ ret'.name \notin DOMAIN note
           => /\ ret'.status = CREATED
              /\ ret'.err = NilError
              /\ ReadsBack(note', ret'.name, ret'.body, now')
      /\ ret'.op = "setNote" /\ ret'.clobber /\ ret'.name \in DOMAIN note
           => /\ ret'.status = UPDATED
              /\ ret'.err = NilError
              /\ ReadsBack(note', ret'.name, ret'.body, now')
      /\ ret'.op = "getNote"
           => /\ ret'.found = (lastSet[ret'.name] # NoBody)
              /\ ret'.body = lastSet[ret'.name] ]_vars

\* a note created, overwritten, and read while another note holds the
\* body it had before
RoundTrip_witness ==
  /\ ret.op = "getNote"
  /\ ret.found
  /\ ret.body = "y"
  /\ note[ret.name].create_time < now
  /\ \E n \in DOMAIN note : note[n].body = "x"

(***************************************************************************)
(* C14  setNote without clobber on a name that exists returns NO_CLOBBER   *)
(* with no error and leaves the whole store unchanged: that note's body,   *)
(* create_time and last_viewed, and every other note.                      *)
(***************************************************************************)
NoClobberFrame ==
  [][ ret'.op = "setNote" /\ ~ret'.clobber /\ ret'.name \in DOMAIN note
        => /\ ret'.status = NO_CLOBBER
           /\ ret'.err = NilError
           /\ note' = note ]_vars

\* the refused note was last viewed in the past and holds another body
NoClobberFrame_witness ==
  /\ ret.op = "setNote"
  /\ ret.status = NO_CLOBBER
  /\ note[ret.name].last_viewed < now
  /\ note[ret.name].body # ret.body

(***************************************************************************)
(* C15  deleteNote returns success whether or not the note exists;         *)
(* afterwards getNote of that name finds nothing, and no other note is     *)
(* changed.                                                                *)
(***************************************************************************)
DeleteFrame ==
  [][ ret'.op = "deleteNote"
        => /\ ret'.err = NilError
           /\ ~getNote(note', ret'.name, now').found
           /\ DOMAIN note' = DOMAIN note \ {ret'.name}
           /\ \A n \in DOMAIN note' : note'[n] = note[n] ]_vars

\* a delete that left the other note in the store
DeleteFrame_witness ==
  /\ ret.op = "deleteNote"
  /\ DOMAIN note = Names \ {ret.name}

(***************************************************************************)
(* C16  getNote of an existing note returns its body with found = true and *)
(* sets that note's last_viewed to the current time, changing nothing      *)
(* else; getNote of an absent name returns found = false with no error and *)
(* changes nothing.                                                        *)
(***************************************************************************)
GetFrame ==
  [][ ret'.op = "getNote"
        => /\ ret'.err = NilError
           /\ IF ret'.name \in DOMAIN note
              THEN /\ ret'.found
                   /\ ret'.body = note[ret'.name].body
                   /\ note' = [note EXCEPT ![ret'.name].last_viewed = now]
              ELSE /\ ~ret'.found
                   /\ note' = note ]_vars

\* a note read after its creation, beside a note not viewed since
GetFrame_witness ==
  /\ ret.op = "getNote"
  /\ ret.found
  /\ note[ret.name].create_time < note[ret.name].last_viewed
  /\ \E n \in DOMAIN note : note[n].last_viewed < now

(***************************************************************************)
(* C17  deleteOldNotes(age) removes exactly the notes whose now -          *)
(* last_viewed is strictly greater than age and keeps every other note     *)
(* unchanged; a note viewed exactly age ago or less is kept.               *)
(***************************************************************************)
ExpiryExact ==
  [][ ret'.op = "deleteOldNotes"
        => /\ DOMAIN note' =
                {n \in DOMAIN note : ~(now - note[n].last_viewed > ret'.n)}
           /\ \A n \in DOMAIN note' : note'[n] = note[n] ]_vars

\* a note viewed exactly age ago survived a sweep that removed the other
ExpiryExact_witness ==
  /\ ret.op = "deleteOldNotes"
  /\ ret.n > 0
  /\ \E n \in DOMAIN note : now - note[n].last_viewed = ret.n
  /\ \E n \in Names \ DOMAIN note : lastSet[n] = NoBody
  /\ now = MaxTime

(***************************************************************************)
(* C19  getLatestNotes(maxNotes) returns at most maxNotes names and they   *)
(* are the most recently created notes: no note left out has a later       *)
(* create_time than a note returned.                                       *)
(***************************************************************************)
Listed(names) == {names[i] : i \in 1..Len(names)}

LatestAreNewest ==
  ret.op = "getLatestNotes" =>
    /\ Len(ret.names) <= ret.n
    /\ \A out \in DOMAIN note \ Listed(ret.names) :
         \A in \in Listed(ret.names) :
           note[out].create_time <= note[in].create_time

(***************************************************************************)
(* The note store called by several request handlers at once: the store    *)
(* executes each statement atomically, a call of two statements (getNote,  *)
(* setNote with clobber) can be overtaken between them                     *)
(***************************************************************************)
MaxProcs == 2

Procs == 1..MaxProcs

\* a caller that has not called yet
Ready ==
  [op |-> "none", name |-> "", body |-> NoBody, clobber |-> FALSE, n |-> 0,
   pc |-> "ready", status |-> NO_CLOBBER, found |-> FALSE, wrote |-> FALSE]

Returns(p, c) == calls' = [calls EXCEPT ![p] = [c EXCEPT !.pc = "returned"]]

\* setNote, lines 205-206 and 212-217: the insert, and the return unless
\* the fallback update is due
CallInsert(p) ==
  /\ calls[p].pc = "ready"
  /\ \E name \in Names, body \in Bodies, clobber \in BOOLEAN :
       LET c == [Ready EXCEPT !.op = "setNote", !.name = name,
                              !.body = body, !.clobber = clobber]
           i == InsertNote(note, name, body, now)
       IN  /\ note' = i.note
           /\ IF ~i.unique
              THEN IF clobber
                   THEN calls' = [calls EXCEPT ![p] =
                                    [c EXCEPT !.pc = "fallback"]]
                   ELSE Returns(p, [c EXCEPT !.status = NO_CLOBBER])
              ELSE Returns(p, [c EXCEPT !.status = CREATED, !.wrote = TRUE])
  /\ UNCHANGED <<now, ret, lastSet, note0, mvars, svars, hvars>>

\* setNote, lines 208-211: the fallback update and the return
CallUpdate(p) ==
  /\ calls[p].pc = "fallback"
  /\ note' = UpdateBody(note, calls[p].name, calls[p].body)
  /\ Returns(p, [calls[p] EXCEPT !.status = UPDATED,
                                 !.wrote = calls[p].name \in DOMAIN note])
  /\ UNCHANGED <<now, ret, lastSet, note0, mvars, svars, hvars>>

\* getNote, lines 187-195: the select, and the return when no row is found
CallSelect(p) ==
  /\ calls[p].pc = "ready"
  /\ \E name \in Names :
       LET c == [Ready EXCEPT !.op = "getNote", !.name = name]
       IN  IF name \in DOMAIN note
           THEN calls' = [calls EXCEPT ![p] =
                            [c EXCEPT !.pc = "touch", !.found = TRUE,
                                      !.body = note[name].body]]
           ELSE Returns(p, c)
  /\ UNCHANGED <<note, now, ret, lastSet, note0, mvars, svars, hvars>>

\* getNote, lines 196-201: the update of last_viewed and the return
CallTouch(p) ==
  /\ calls[p].pc = "touch"
  /\ note' = UpdateViewed(note, calls[p].name, now)
  /\ Returns(p, calls[p])
  /\ UNCHANGED <<now, ret, lastSet, note0, mvars, svars, hvars>>

\* deleteNote
CallDelete(p) ==
  /\ calls[p].pc = "ready"
  /\ \E name \in Names :
       /\ note' = deleteNote(note, name)
       /\ Returns(p, [Ready EXCEPT !.op = "deleteNote", !.name = name])
  /\ UNCHANGED <<now, ret, lastSet, note0, mvars, svars, hvars>>

\* deleteOldNotes
CallDeleteOld(p) ==
  /\ calls[p].pc = "ready"
  /\ \E age \in 0..MaxAge :
       /\ note' = deleteOldNotes(note, age, now)
       /\ Returns(p, [Ready EXCEPT !.op = "deleteOldNotes", !.n = age])
  /\ UNCHANGED <<now, ret, lastSet, note0, mvars, svars, hvars>>

NextConc ==
  \/ \E p \in Procs :
       \/ CallInsert(p) \/ CallUpdate(p)
       \/ CallSelect(p) \/ CallTouch(p)
       \/ CallDelete(p) \/ CallDeleteOld(p)
  \/ Tick

\* the store holds no note or one, created by an earlier setNote
InitConc ==
  /\ files = {}
  /\ bad = {}
  /\ InitMigration
  /\ note \in {EmptyTable} \cup
              {[n \in {name} |-> Row(body, 0)] : name \in Names, body \in Bodies}
  /\ now = 0
  /\ ret = NoRet
  /\ lastSet = [n \in Names |-> IF n \in DOMAIN note THEN note[n].body
                                ELSE NoBody]
  /\ calls = [p \in Procs |-> Ready]
  /\ note0 = note
  /\ InitMain
  /\ InitHttp

SpecConc == InitConc /\ [][NextConc]_vars

(***************************************************************************)
(* C20  Concurrent creation: when the setNote calls on a name that was     *)
(* absent all have clobber = false and no delete runs beside them, then    *)
(* once they have returned exactly one returned CREATED, the others        *)
(* returned NO_CLOBBER, and the stored body is that of the CREATED call.   *)
(***************************************************************************)
Setters(n) == {p \in Procs : calls[p].op = "setNote" /\ calls[p].name = n}

NoDelete(n) ==
  \A p \in Procs :
    /\ ~(calls[p].op = "deleteNote" /\ calls[p].name = n)
    /\ calls[p].op # "deleteOldNotes"

ConcurrentCreate ==
  \A n \in Names :
    /\ n \notin DOMAIN note0
    /\ Setters(n) # {}
    /\ \A p \in Setters(n) : ~calls[p].clobber /\ calls[p].pc = "returned"
    /\ NoDelete(n)
    => \E w \in Setters(n) :
         /\ calls[w].status = CREATED
         /\ \A p \in Setters(n) \ {w} : calls[p].status = NO_CLOBBER
         /\ n \in DOMAIN note
         /\ note[n].body = calls[w].body

\* every caller has tried to create the same absent note, with different
\* bodies
ConcurrentCreate_witness ==
  \E n \in Names \ DOMAIN note0 :
    /\ Setters(n) = Procs
    /\ NoDelete(n)
    /\ \A p \in Procs : ~calls[p].clobber /\ calls[p].pc = "returned"
    /\ \E p, q \in Procs : calls[p].body # calls[q].body

(***************************************************************************)
(* main(), main.go lines 41-90: parseArgs, then either the migration run   *)
(* or the server with its expiry goroutine                                 *)
(***************************************************************************)
cleanupInterval == 3600

\* values of -note-expiry, in days
ExpiryFlags == {-1, 0, 1, 106752}

\* the durations parseArgs can return, and age/time.Second of each
Durations == {DaysToDuration(e) : e \in {x \in ExpiryFlags : x >= 0}}

SecondsOf == [d \in Durations |-> Seconds(d)]

\* parseArgs and main up to the branch on config.migrate and, when
\* serving, up to ListenAndServe
StartMain ==
  /\ main = "start"
  /\ \E expiry \in ExpiryFlags, migrate \in BOOLEAN :
       IF expiry < 0
       THEN /\ main' = "fatal"
            /\ UNCHANGED <<config, sweeper, wake>>
       ELSE LET d == DaysToDuration(expiry)
            IN  /\ config' = [expiry |-> expiry, migrate |-> migrate,
                              noteExpiryTime |-> d]
                /\ IF migrate
                   THEN /\ main' = "migrating"
                        /\ UNCHANGED <<sweeper, wake>>
                   ELSE /\ main' = "serving"
                        /\ IF d # Int64(0)
                           THEN /\ sweeper' = "sleeping"
                                /\ wake' = now + cleanupInterval
                           ELSE UNCHANGED <<sweeper, wake>>
  /\ UNCHANGED <<sweeps, mvars, nvars, cvars, hvars>>

\* variant: the run is started again after it has returned
Migrating_again ==
  /\ main = "migrating"
  /\ Begin \/ Walk \/ Return

\* lines 67-74: RunMigrations, called once
Migrating ==
  /\ main = "migrating"
  /\ (runs = 0 /\ Begin) \/ Walk \/ Return

\* lines 68-73: log.Fatalf on an error, else Close and return
EndMain ==
  /\ main = "migrating"
  /\ pc = "done"
  /\ main' = IF result = NilError THEN "exited" ELSE "fatal"
  /\ UNCHANGED <<config, sweeper, wake, sweeps, mvars, nvars, cvars, hvars>>

\* the handlers of the router call the note store
Serving ==
  /\ main = "serving"
  /\ SetNote \/ GetNote \/ DeleteNote

\* lines 78-83: time.Sleep has returned; deleteOldNotes, and sleep again
Sweep ==
  /\ main = "serving"
  /\ sweeper = "sleeping"
  /\ now >= wake
  /\ LET age == SecondsOf[config.noteExpiryTime]
     IN  /\ note' = deleteOldNotes(note, age, now)
         /\ ret' = [Call("deleteOldNotes") EXCEPT !.n = age]
         /\ lastSet' = [n \in Names |->
                          IF n \in Expired(note, age, now) THEN NoBody
                          ELSE lastSet[n]]
  /\ wake' = now + cleanupInterval
  /\ sweeps' = sweeps + 1
  /\ UNCHANGED <<now, main, config, sweeper, mvars, cvars, hvars>>

\* an hour passes while the server runs
HourPasses ==
  /\ main = "serving"
  /\ now < MaxTime * cleanupInterval
  /\ now' = now + cleanupInterval
  /\ ret' = NoRet
  /\ UNCHANGED <<note, lastSet, mvars, cvars, svars, hvars>>

\* line 89: http.ListenAndServe returns, log.Fatal ends the process
Crash ==
  /\ main = "serving"
  /\ main' = "fatal"
  /\ UNCHANGED <<config, sweeper, wake, sweeps, mvars, nvars, cvars, hvars>>

InitServe ==
  /\ Init
  /\ files = { <<FileName(DateB, <<"0">>)>> }

NextServe ==
  StartMain \/ Migrating \/ EndMain \/ Serving \/ Sweep \/ HourPasses \/ Crash

SpecServe == InitServe /\ [][NextServe]_vars

\* the Go scheduler runs the goroutine once its sleep is over
SpecServeFair == SpecServe /\ WF_vars(Sweep)

ServeTypeOK ==
  /\ main \in {"start", "migrating", "serving", "exited", "fatal"}
  /\ sweeper \in {"none", "sleeping"}
  /\ sweeps * cleanupInterval <= now

(***************************************************************************)
(* C18  With -note-expiry zero no sweep is started and a note leaves the   *)
(* store only by a deleteNote call on it; with a positive value the sweep  *)
(* is started, each of its calls passes deleteOldNotes that many days as   *)
(* the age, it calls at most once per cleanup interval, and as long as the *)
(* server runs a sleep that is over is followed by a call.                 *)
(***************************************************************************)
\* d is exactly that many days: the product of line 108 without wrapping
IsDays(d, days) ==
  /\ ~IsNegative(d)
  /\ d \o <<0, 0>> = MulCarry(Hour(10), days * 24, 0)

SweepSchedule ==
  /\ [](main = "serving" =>
          /\ (sweeper = "sleeping") = (config.expiry > 0)
          /\ sweeps * cleanupInterval <= now)
  /\ [][ config.expiry = 0 /\ DOMAIN note \ DOMAIN note' # {}
           => /\ ret'.op = "deleteNote"
              /\ DOMAIN note \ DOMAIN note' = {ret'.name} ]_vars
  /\ [][ sweeps' # sweeps
           => /\ sweeps' = sweeps + 1
              /\ now >= wake
              /\ wake' = now + cleanupInterval
              /\ ret'.op = "deleteOldNotes"
              /\ ret'.n = SecondsOf[config.noteExpiryTime]
              /\ IsDays(config.noteExpiryTime, config.expiry) ]_vars
  /\ \A k \in 0..MaxTime :
       (main = "serving" /\ config.expiry > 0 /\ now >= wake /\ sweeps = k)
         ~> (sweeps > k \/ main # "serving")

(***************************************************************************)
(* C21  The count of applied migrations RunMigrations reports,             *)
(* migrationsPerformed, equals the number of scripts whose transaction     *)
(* committed in that run, for runs that succeed and for runs that fail at  *)
(* the ledger insert or at commit; it is 0 on an up-to-date store.         *)
(***************************************************************************)
PerformedIsCommitted ==
  pc = "done" /\ result \in {NilError, "insert", "commit"} =>
    /\ migrationsPerformed = Len(run.applied)
    /\ Pending(run) = {} => migrationsPerformed = 0

(***************************************************************************)
(* C22  A migration run is never concurrent with request traffic or the    *)
(* expiry sweep of the same process: with -migrate the process calls       *)
(* RunMigrations once and exits without starting the sweep or the server;  *)
(* without -migrate it never calls RunMigrations.                          *)
(***************************************************************************)
MigrateOrServe ==
  /\ runs <= 1
  /\ runs = 1 \/ pc # "idle" => config.migrate
  /\ config.migrate =>
       /\ main \in {"migrating", "exited", "fatal"}
       /\ sweeper = "none"
       /\ sweeps = 0
       /\ ret = NoRet
       /\ note = EmptyTable
  /\ main = "serving" => ~config.migrate /\ runs = 0 /\ pc = "idle"
  /\ main = "exited" => runs = 1 /\ pc = "done" /\ result = NilError

\* -migrate with a positive -note-expiry: the script is applied, the
\* process has exited, no sweep was started
MigrateOrServe_witness ==
  /\ main = "exited"
  /\ config.expiry > 0
  /\ db.ledger # {}

(***************************************************************************)
(* The router, handlers.go lines 15-166: every route is a handler wrapped  *)
(* by Auth.  The text of an Authorization header is the decoded            *)
(* credentials, a sequence of characters.                                  *)
(***************************************************************************)
StatusOK == 200
StatusCreated == 201
StatusUnauthorized == 401
StatusNotFound == 404
StatusConflict == 409

Header(text) == [present |-> TRUE, text |-> text]

\* the index of the first ":" of a text, 0 when it has none
FirstColon(text) ==
  IF \E i \in 1..Len(text) : text[i] = ":"
  THEN CHOOSE i \in 1..Len(text) :
         text[i] = ":" /\ \A j \in 1..(i - 1) : text[j] # ":"
  ELSE 0

\* r.BasicAuth(): user and password are the text before and after the
\* first ":"
BasicAuth(h) ==
  IF ~h.present \/ FirstColon(h.text) = 0
  THEN [user |-> <<>>, password |-> <<>>, ok |-> FALSE]
  ELSE LET i == FirstColon(h.text)
       IN  [user |-> SubSeq(h.text, 1, i - 1),
            password |-> SubSeq(h.text, i + 1, Len(h.text)),
            ok |-> TRUE]

\* variant: a request without credentials passes when the map is empty
Authorized_empty(creds, h) ==
  LET a == BasicAuth(h)
      credsValid == (a.user \o <<":">> \o a.password) \in creds.keys
  IN  (a.ok /\ credsValid) \/ creds.keys = {}

\* Auth, lines 32-35: the lookup in a nil map finds nothing
Authorized(creds, h) ==
  LET a == BasicAuth(h)
      credsValid == (a.user \o <<":">> \o a.password) \in creds.keys
  IN  (a.ok /\ credsValid) \/ creds.nil

\* what a handler did: the table, the store call, the status written
Handled(tbl, call, last, code) ==
  [note |-> tbl, ret |-> call, lastSet |-> last, code |-> code]

\* variant: a created note is answered like an updated one
SetNoteHandler_ok(name, body, clobber) ==
  LET o == setNote(note, name, body, clobber, now)
  IN  Handled(o.note,
              [Call("setNote") EXCEPT !.name = name, !.body = body,
                 !.clobber = clobber, !.status = o.status],
              IF o.status \in {CREATED, UPDATED}
              THEN [lastSet EXCEPT ![name] = body] ELSE lastSet,
              IF o.status = NO_CLOBBER THEN StatusConflict ELSE StatusOK)

\* SetNote, lines 126-152
SetNoteHandler(name, body, clobber) ==
  LET o == setNote(note, name, body, clobber, now)
  IN  Handled(o.note,
              [Call("setNote") EXCEPT !.name = name, !.body = body,
                 !.clobber = clobber, !.status = o.status],
              IF o.status \in {CREATED, UPDATED}
              THEN [lastSet EXCEPT ![name] = body] ELSE lastSet,
              IF o.status = NO_CLOBBER THEN StatusConflict
              ELSE IF o.status = CREATED THEN StatusCreated
              ELSE StatusOK)

\* DeleteNote, lines 155-166
DeleteNoteHandler(name) ==
  Handled(deleteNote(note, name),
          [Call("deleteNote") EXCEPT !.name = name],
          [lastSet EXCEPT ![name] = NoBody],
          StatusOK)

\* Note and RawNote, lines 77-122
GetNoteHandler(name) ==
  LET o == getNote(note, name, now)
  IN  Handled(o.note,
              [Call("getNote") EXCEPT !.name = name, !.body = o.body,
                 !.found = o.found],
              lastSet,
              IF o.found THEN StatusOK ELSE StatusNotFound)

\* Index, lines 59-74
IndexHandler(names) ==
  Handled(note,
          [Call("getLatestNotes") EXCEPT !.n = numRecentNotes,
             !.names = names],
          lastSet,
          StatusOK)

\* the Authorization headers a request may carry
Headers ==
  { NoHeader,
    Header(<<"u", ":", "p">>),
    Header(<<"u", ":", "x">>),
    Header(<<"a", ":", "b", ":", "c">>),
    Header(<<"u", "p">>) }

\* config.credentials as parseArgs builds it, main.go lines 115-143
CredentialMaps ==
  { NilMap,
    MakeMap({}),
    MakeMap({<<"u", ":", "p">>}),
    MakeMap({<<"a", ":", "b", ":", "c">>, <<"u", "p">>}) }

\* Auth, lines 29-44, around a handler
Auth(r, h) ==
  /\ req' = r
  /\ IF Authorized(credentials, r.auth)
     THEN /\ note' = h.note
          /\ ret' = h.ret
          /\ lastSet' = h.lastSet
          /\ resp' = [code |-> h.code, invoked |-> TRUE]
     ELSE /\ resp' = [code |-> StatusUnauthorized, invoked |-> FALSE]
          /\ ret' = NoRet
          /\ UNCHANGED <<note, lastSet>>
  /\ UNCHANGED <<now, credentials, numRecentNotes, mvars, cvars, svars>>

Request(route, name, body, auth) ==
  [route |-> route, name |-> name, body |-> body, auth |-> auth]

PostNote ==
  \E name \in Names, body \in Bodies, auth \in Headers :
    Auth(Request("POST /api/note/:note", name, body, auth),
         SetNoteHandler(name, body, FALSE))

PutNote ==
  \E name \in Names, body \in Bodies, auth \in Headers :
    Auth(Request("PUT /api/note/:note", name, body, auth),
         SetNoteHandler(name, body, TRUE))

DeleteNoteRequest ==
  \E name \in Names, auth \in Headers :
    Auth(Request("DELETE /api/note/:note", name, NoBody, auth),
         DeleteNoteHandler(name))

RawNote ==
  \E name \in Names, auth \in Headers :
    Auth(Request("GET /api/note/:note", name, NoBody, auth),
         GetNoteHandler(name))

NotePage ==
  \E name \in Names, auth \in Headers :
    Auth(Request("GET /note/:note", name, NoBody, auth),
         GetNoteHandler(name))

Index ==
  \E auth \in Headers, names \in getLatestNotes(note, numRecentNotes) :
    Auth(Request("GET /", "", NoBody, auth), IndexHandler(names))

\* the server is running, notes never expire
InitRouter ==
  /\ files = {}
  /\ bad = {}
  /\ InitMigration
  /\ InitNoteStore
  /\ InitCalls
  /\ main = "serving"
  /\ config = NoConfig
  /\ sweeper = "none"
  /\ wake = 0
  /\ sweeps = 0
  /\ credentials \in CredentialMaps
  /\ numRecentNotes \in 0..MaxLimit
  /\ req = NoRequest
  /\ resp = NoResponse

NextRouter ==
  PostNote \/ PutNote \/ DeleteNoteRequest \/ RawNote \/ NotePage \/ Index

SpecRouter == InitRouter /\ [][NextRouter]_vars

(***************************************************************************)
(* C23.  For a request that passes Auth: POST on an absent name creates    *)
(* the note with the request body and answers 201; POST on an existing     *)
(* name answers 409 and leaves the table unchanged; PUT creates the note   *)
(* when absent and overwrites its body when present; DELETE answers 200    *)
(* and leaves no note of that name, whether or not one existed.            *)
(***************************************************************************)
NoteApi ==
  [][ resp'.invoked =>
        LET n == req'.name
            stored == n \in DOMAIN note' /\ note'[n].body = req'.body
        IN  /\ req'.route = "POST /api/note/:note" /\ n \notin DOMAIN note
              => resp'.code = StatusCreated /\ stored
            /\ req'.route = "POST /api/note/:note" /\ n \in DOMAIN note
              => resp'.code = StatusConflict /\ note' = note
            /\ req'.route = "PUT /api/note/:note" => stored
            /\ req'.route = "DELETE /api/note/:note"
              => resp'.code = StatusOK /\ n \notin DOMAIN note' ]_vars

NoteApi_witness ==
  /\ req.route = "POST /api/note/:note"
  /\ resp.invoked
  /\ resp.code = StatusConflict
  /\ ~credentials.nil

(***************************************************************************)
(* C24.  The wrapped handler is invoked exactly when the credentials map   *)
(* is nil or the request carries basic-auth credentials whose              *)
(* "user:password" text is a key of the map; any other request is          *)
(* answered 401, leaves the table as it was and makes no store call.       *)
(***************************************************************************)
AccessControl ==
  [][ LET h == req'.auth
          carried == /\ h.present
                     /\ \E i \in 1..Len(h.text) : h.text[i] = ":"
                     /\ h.text \in credentials.keys
      IN  /\ resp'.invoked <=> (credentials.nil \/ carried)
          /\ ~resp'.invoked =>
               /\ resp'.code = StatusUnauthorized
               /\ note' = note
               /\ ret' = NoRet ]_vars

AccessControl_witness ==
  /\ ~credentials.nil
  /\ req.auth = Header(<<"a", ":", "b", ":", "c">>)
  /\ resp.invoked
  /\ req.route = "DELETE /api/note/:note"

(***************************************************************************)
(* C25.  Fail-fast.  Once the callback has returned an error on a file,    *)
(* the files after it in the enumeration order are all still unvisited,    *)
(* every script executed in the run is that file or precedes it, every     *)
(* script committed in the run precedes it, and the ledger is the ledger   *)
(* the run began with plus the identifiers of those committed scripts.     *)
(***************************************************************************)
FailFast ==
  run.stopped # NoPath =>
    LET order == WalkOrder(run.files)
        i == CHOOSE i \in 1..Len(order) : order[i] = run.stopped
    IN  /\ todo = SubSeq(order, i + 1, Len(order))
        /\ \A k \in 1..Len(run.executed) :
             \E j \in 1..i : order[j] = run.executed[k]
        /\ \A k \in 1..Len(run.applied) :
             \E j \in 1..(i - 1) : order[j] = run.applied[k]
        /\ db.ledger = run.ledger0 \cup
             {Ident(run.applied[k]) : k \in 1..Len(run.applied)}

FailFast_witness ==
  /\ pc = "done"
  /\ run.stopped # NoPath
  /\ run.applied # <<>>
  /\ todo # <<>>

(***************************************************************************)
(* C26.  When a run has returned success, the ledger is the set of the     *)
(* identifiers of the scripts of the collection: every file of the         *)
(* collection is a script, each is recorded, and nothing else is.          *)
(***************************************************************************)
SuccessMeansEqual ==
  pc = "done" /\ result = NilError =>
    /\ \A p \in run.files : WellFormed(p)
    /\ db.ledger = {Ident(p) : p \in run.files}

SuccessMeansEqual_witness ==
  /\ pc = "done"
  /\ result = NilError
  /\ runs = 2
  /\ run.ledger0 # {}
  /\ run.applied # <<>>

(***************************************************************************)
(* C27.  A run that returns the missing-migration error has finished its   *)
(* enumeration (every file visited, or the walk stopped on an error), has  *)
(* committed every unrecorded script it visited without error, and leaves  *)
(* the ledger it began with plus the identifiers of those scripts.         *)
(***************************************************************************)
MissingAfterWalk ==
  pc = "done" /\ result = "missing" =>
    LET order == WalkOrder(run.files)
        visited == {order[i] : i \in 1..(Len(order) - Len(todo))}
        reached == {p \in visited \ {run.stopped} :
                      WellFormed(p) /\ Ident(p) \notin run.ledger0}
    IN  /\ run.stopped = NoPath => todo = <<>>
        /\ reached = {run.applied[k] : k \in 1..Len(run.applied)}
        /\ db.ledger = run.ledger0 \cup {Ident(p) : p \in reached}

MissingAfterWalk_witness ==
  /\ pc = "done"
  /\ result = "missing"
  /\ run.applied # <<>>
  /\ db.ledger # run.ledger0

(***************************************************************************)
(* C28.  Throughout a run latestMigration never decreases and no           *)
(* identifier of the working set is later than it, and the callback never  *)
(* returns the error of a recorded migration newer than the latest one.    *)
(***************************************************************************)
LatestDominates ==
  \A m \in DOMAIN migrationSet : ~before(latestMigration, m)

LatestIsGreatest ==
  [][ /\ LatestDominates'
      /\ pc = "walk" => ~before(latestMigration', latestMigration)
      /\ err' # "order_old" ]_vars

LatestIsGreatest_witness ==
  /\ pc = "walk"
  /\ latestMigration \notin run.ledger0
  /\ \E m \in run.ledger0 : migrationSet[m]
  /\ \E m \in run.ledger0 : ~migrationSet[m]

(***************************************************************************)
(* C29.  A setNote call with clobber = true that has returned CREATED or   *)
(* UPDATED changed a row during the call: its insert or its fallback       *)
(* update stored the body under the name, whatever the other callers did.  *)
(***************************************************************************)
ClobberWrites ==
  \A p \in Procs :
    /\ calls[p].op = "setNote"
    /\ calls[p].clobber
    /\ calls[p].pc = "returned"
    /\ calls[p].status \in {CREATED, UPDATED}
    => calls[p].wrote

(***************************************************************************)
(* C30.  setNote with clobber = true on an existing note changes that      *)
(* note's body and nothing else: its create_time and last_viewed and       *)
(* every other note are as before, so the lists getLatestNotes may return  *)
(* and the notes a deleteOldNotes would remove are the same as before.     *)
(***************************************************************************)
OverwriteFrame ==
  [][ ret'.op = "setNote" /\ ret'.clobber /\ ret'.name \in DOMAIN note
        => /\ ret'.status = UPDATED
           /\ note' = [note EXCEPT ![ret'.name].body = ret'.body]
           /\ \A k \in 0..MaxLimit :
                getLatestNotes(note', k) = getLatestNotes(note, k)
           /\ \A age \in 0..MaxAge :
                Expired(note', age, now') = Expired(note, age, now) ]_vars

\* an older note, last viewed before now, was overwritten with another body
\* while a younger note exists
OverwriteFrame_witness ==
  /\ ret.op = "setNote"
  /\ ret.clobber
  /\ ret.status = UPDATED
  /\ ret.name \in DOMAIN note
  /\ note[ret.name].body = ret.body
  /\ note[ret.name].last_viewed < now
  /\ \E n \in DOMAIN note : note[n].create_time > note[ret.name].create_time

(***************************************************************************)
(* Serial numbers at the edge of 32 bits (lines 103-113): collections      *)
(* whose scripts carry the serials below, run by the same RunMigrations    *)
(***************************************************************************)
\* most files in such a collection
MaxSerialFiles == 2

Serials ==
  { <<"9">>,
    <<"1", "0">>,
    <<"2", "1", "4", "7", "4", "8", "3", "6", "4", "7">>,
    <<"2", "1", "4", "7", "4", "8", "3", "6", "4", "8">>,
    <<"4", "2", "9", "4", "9", "6", "7", "2", "9", "6">>,
    <<"0", "0", "0", "0", "0", "0", "0", "0", "0", "0", "2">>,
    <<"0", "2", "1", "4", "7", "4", "8", "3", "6", "4", "8">> }

SerialPaths ==
  {<<FileName(DateA, serial)>> : serial \in Serials} \cup
  {<<FileName(DateB, <<"0">>)>>}

SerialCollections ==
  {c \in SUBSET SerialPaths : Cardinality(c) <= MaxSerialFiles}

InitSerial ==
  /\ files \in SerialCollections
  /\ bad = {}
  /\ InitMigration
  /\ InitNoteStore
  /\ InitCalls
  /\ InitMain
  /\ InitHttp

\* a script is added; it executes without error
AddSerial ==
  /\ CanEdit
  /\ Cardinality(files) < MaxSerialFiles
  /\ \E p \in SerialPaths \ files : files' = files \cup {p}
  /\ bad' = bad
  /\ Edited

NextSerial == Begin \/ Walk \/ Return \/ AddSerial

SpecSerial == InitSerial /\ [][NextSerial]_vars

SerialTypeOK ==
  /\ files \in SerialCollections
  /\ bad = {}
  /\ pc \in {"idle", "walk", "done"}
  /\ runs \in 0..MaxRuns
  /\ latestMigration.number \in 0..MaxInt32
  /\ \A m \in DOMAIN migrationSet : m.number \in 0..MaxInt32

\* the serial of a file name that matches the pattern
Serial(p) == SplitDot(Base(p))[2]

\* a string of digits without its leading zeros
RECURSIVE Stripped(_)
Stripped(s) ==
  IF Len(s) > 1 /\ Head(s) = "0" THEN Stripped(Tail(s)) ELSE s

MaxSerialText == <<"2", "1", "4", "7", "4", "8", "3", "6", "4", "7">>

\* the serial denotes a number greater than 2^31 - 1
Oversize(s) ==
  LET t == Stripped(s)
  IN  Len(t) > Len(MaxSerialText) \/
      (Len(t) = Len(MaxSerialText) /\ StrLess(MaxSerialText, t))

(***************************************************************************)
(* C31.  A script whose name matches the pattern and whose serial exceeds  *)
(* 2^31 - 1 is never executed, and the run that reaches it returns the     *)
(* "number too large" error; a serial of at most 2^31 - 1 is not refused   *)
(* as too large, its identifier carries its numeric value, and two such    *)
(* scripts of one date are ordered by those values.                        *)
(***************************************************************************)
SerialRange ==
  pc = "done" =>
    \A p \in run.files :
      /\ MatchName(Base(p))
      /\ IF Oversize(Serial(p))
         THEN /\ \A k \in 1..Len(run.executed) : run.executed[k] # p
              /\ p \notin Effected
              /\ run.stopped = p => result = "toolarge"
         ELSE /\ WellFormed(p)
              /\ Ident(p).number = DecimalValue(Serial(p))
              /\ run.stopped = p => err # "toolarge"
              /\ \A q \in run.files :
                   ~Oversize(Serial(q)) /\ Ident(q).date = Ident(p).date =>
                     (before(Ident(p), Ident(q)) <=>
                        DecimalValue(Serial(p)) < DecimalValue(Serial(q)))

====
